---- MODULE Spec2Model ----
(***************************************************************************)
(* LLVMChunkBuilder / LLVMChunk of src/src/llvm/llvm-chunk.cc: lowering of *)
(* a Hydrogen graph to an LLVM function, one compilation unit at a time,   *)
(* against the process-wide LLVMGranularity session.                       *)
(*                                                                         *)
(* Four specifications:                                                    *)
(*   Spec      the builder: NewChunk/Build, DoBasicBlock, VisitInstruction *)
(*             and the opcode handlers, over a family of small graphs.     *)
(*   PureSpec  the pure helpers TokenToPredicate, Integer32ToSmi and       *)
(*             SmiToInteger32 applied to enumerated inputs.                *)
(*   CodegenSpec  NewChunk and LLVMChunk::Codegen calls against the        *)
(*             session, a build reduced to what it does to the session.    *)
(*   LiveSpec  one NewChunk call followed to its end, under weak fairness  *)
(*             of the build's own steps.                                   *)
(***************************************************************************)
EXTENDS Integers, Sequences, FiniteSets, TLC

VARIABLES
  pc,          \* position of the driver: "idle", "block", "instr", "blockend", "fatal"
  debug,       \* TRUE for a DEBUG build (DCHECKs are compiled in)
  rtl,         \* TRUE when the compiler evaluates call arguments right to left
  graph,       \* the HGraph handed to NewChunk (immutable frontend data)
  b,           \* the LLVMChunkBuilder together with the mutable fields of the IR
  blockIdx,    \* Build's loop variable i
  current,     \* DoBasicBlock's loop variable (position in the block's list, 0 = NULL)
  session,     \* LLVMGranularity::getInstance()
  results,     \* what the NewChunk calls so far returned, oldest first
  op,          \* PureSpec: Token::Value given to TokenToPredicate
  is_unsigned, \* PureSpec: its signedness flag
  pred,        \* PureSpec: the outcome of the TokenToPredicate call
  x,           \* PureSpec: the 32-bit integer under conversion
  smi,         \* PureSpec: the outcome of the Integer32ToSmi call
  int32,       \* PureSpec: the outcome of the SmiToInteger32 call
  counter,     \* isolate->counters()->total_compiled_code_size()
  codes        \* the Code objects the Codegen calls so far returned, oldest first

vars == <<pc, debug, rtl, graph, b, blockIdx, current, session, results,
          op, is_unsigned, pred, x, smi, int32, counter, codes>>

----------------------------------------------------------------------------
(* Sequencing of the statements of a function body.                        *)

\* What follows a call that may have ended the process (V8_Fatal, recorded in
\* the fatal field of the builder): F applied to the state the call left,
\* unless the call was fatal.
AndThen(st, F(_)) == IF st.fatal = "" THEN F(st) ELSE st

\* F applied to what a call returned.
With(r, F(_)) == F(r)

----------------------------------------------------------------------------
(* Bounds of the model.                                                    *)

\* NewChunk calls per run of the process.
MaxBuilds == 2
\* The small 32-bit integers tried besides the extreme ones: -MaxSmall..MaxSmall.
MaxSmall == 2
\* Declared parameters of a function: 0..MaxParams; HParameter indexes likewise.
MaxParams == 3
\* Codegen calls per run of the process.
MaxCodegens == 4
\* Sizes of a generated machine-code buffer: 1..MaxCodeSize.
MaxCodeSize == 2

----------------------------------------------------------------------------
(* 64-bit machine words.  Every llvm::Value is an i64 (Build gives every   *)
(* parameter and the result llvm::Type::getInt64Ty); a word is the         *)
(* function from bit position (0 = least significant) to bit.              *)

kBitsPerWord == 64
\* kSmiShift under SmiValuesAre32Bits(): kSmiTagSize + kSmiShiftSize = 1 + 31.
kSmiShift == 32

BitIndex == 0 .. (kBitsPerWord - 1)

\* The 32-bit two's complement integer v, sign-extended to a word (int64_t v).
SignExtend32(v) ==
  LET u == IF v >= 0 THEN v ELSE (v + 2147483647) + 1
  IN [i \in BitIndex |->
        IF i < 31 THEN (u \div (2 ^ i)) % 2 ELSE IF v < 0 THEN 1 ELSE 0]

ZeroWord == [i \in BitIndex |-> 0]

\* llvm::IRBuilder::CreateShl on constants: logical shift left, zero fill.
Shl(w, n) == [i \in BitIndex |-> IF i >= n THEN w[i - n] ELSE 0]

\* llvm::IRBuilder::CreateLShr on constants: logical shift right, zero fill.
LShr(w, n) == [i \in BitIndex |-> IF i + n < kBitsPerWord THEN w[i + n] ELSE 0]

\* Two's complement addition modulo 2^64 with carry-in cin.
AddCarry(w1, w2, cin) ==
  LET c[i \in 0 .. kBitsPerWord] ==
        IF i = 0 THEN cin ELSE (w1[i - 1] + w2[i - 1] + c[i - 1]) \div 2
  IN [i \in BitIndex |-> (w1[i] + w2[i] + c[i]) % 2]

AddW(w1, w2) == AddCarry(w1, w2, 0)
SubW(w1, w2) == AddCarry(w1, [i \in BitIndex |-> 1 - w2[i]], 1)

\* Two's complement multiplication modulo 2^64, column by column:
\* ColumnSum is the number of partial products of weight 2^k, and bit k of
\* the product is that sum plus the carry out of the columns below.
ColumnSum(w1, w2, k) == Cardinality({i \in 0 .. k : w1[i] = 1 /\ w2[k - i] = 1})

MulW(w1, w2) ==
  LET c[k \in 0 .. kBitsPerWord] ==
        IF k = 0 THEN 0 ELSE (ColumnSum(w1, w2, k - 1) + c[k - 1]) \div 2
  IN [k \in BitIndex |-> (ColumnSum(w1, w2, k) + c[k]) % 2]

\* The 32-bit integers the model draws its numbers from.
Int32Samples == ((0 - MaxSmall) .. MaxSmall) \cup {(0 - 2147483647) - 1, 2147483647}

----------------------------------------------------------------------------
(* TokenToPredicate.                                                       *)

\* The six relational tokens with their strict variants, the two membership
\* tokens the switch names, and one token that only the default label takes.
RelationalTokens == {"EQ", "NE", "LT", "GT", "LTE", "GTE"}
Tokens == RelationalTokens \cup {"EQ_STRICT", "NE_STRICT", "IN", "INSTANCEOF", "ADD"}

\* The switch with the break after case Token::LT missing (falls into GT).
TokenToPredicateFallThrough(token, unsgnd) ==
  CASE token \in {"EQ", "EQ_STRICT"} -> [fatal |-> "", pred |-> "ICMP_EQ"]
    [] token \in {"NE", "NE_STRICT"} -> [fatal |-> "", pred |-> "ICMP_NE"]
    [] token \in {"LT", "GT"} ->
         [fatal |-> "", pred |-> IF unsgnd THEN "ICMP_UGT" ELSE "ICMP_SGT"]
    [] token = "LTE" -> [fatal |-> "", pred |-> IF unsgnd THEN "ICMP_ULE" ELSE "ICMP_SLE"]
    [] token = "GTE" -> [fatal |-> "", pred |-> IF unsgnd THEN "ICMP_UGE" ELSE "ICMP_SGE"]
    [] OTHER -> [fatal |-> "unreachable code", pred |-> "BAD_FCMP_PREDICATE"]

\* fatal is the message of the UNREACHABLE() that ended the process ("" when the
\* function returned); pred is the local variable pred at that point.
TokenToPredicate(token, unsgnd) ==
  CASE token \in {"EQ", "EQ_STRICT"} -> [fatal |-> "", pred |-> "ICMP_EQ"]
    [] token \in {"NE", "NE_STRICT"} -> [fatal |-> "", pred |-> "ICMP_NE"]
    [] token = "LT" -> [fatal |-> "", pred |-> IF unsgnd THEN "ICMP_ULT" ELSE "ICMP_SLT"]
    [] token = "GT" -> [fatal |-> "", pred |-> IF unsgnd THEN "ICMP_UGT" ELSE "ICMP_SGT"]
    [] token = "LTE" -> [fatal |-> "", pred |-> IF unsgnd THEN "ICMP_ULE" ELSE "ICMP_SLE"]
    [] token = "GTE" -> [fatal |-> "", pred |-> IF unsgnd THEN "ICMP_UGE" ELSE "ICMP_SGE"]
    [] OTHER -> [fatal |-> "unreachable code", pred |-> "BAD_FCMP_PREDICATE"]

----------------------------------------------------------------------------
(* The Hydrogen graph handed to NewChunk.  Blocks are numbered from 0 in   *)
(* the order of graph()->blocks(); values (instructions and phis) from 1.  *)
(* NoBlock stands for a NULL HBasicBlock*, NoValue for a NULL HValue*.     *)

NoBlock == 0 - 1
NoValue == 0

\* The fields a value of the graph may carry; MkValue fills in the rest.
DefaultValue ==
  [kind |-> "Nop", rep |-> "None", emit |-> FALSE, dummy |-> FALSE,
   left |-> NoValue, right |-> NoValue, uint32 |-> FALSE, has_uses |-> TRUE,
   token |-> "EQ", succ1 |-> NoBlock, succ2 |-> NoBlock, known |-> NoBlock,
   from |-> "None", to |-> "None", can_overflow |-> FALSE,
   index |-> 0, value |-> 0, smi_object |-> FALSE, slot |-> 0,
   constant_parameter_count |-> TRUE, merged_index |-> 0 - 1, block |-> NoBlock]

MkValue(r) == r @@ DefaultValue

DefaultBlock ==
  [is_start |-> FALSE, predecessors |-> <<>>, phis |-> <<>>,
   deleted_phis |-> <<>>, instrs |-> <<>>]

MkBlock(r) == r @@ DefaultBlock

\* Opcodes whose handler is nothing but UNIMPLEMENTED().
StubKinds == {"Typeof", "Div", "Branch", "Goto"}
\* Opcodes of HControlInstruction.
ControlKinds == {"Goto", "CompareNumericAndBranch", "Return", "Branch"}

\* The graphs of the model: a diamond
\*     B0 (start) -> B1 -> {B2, B3} -> B4 (join)
\* whose parameters p vary the order of B1's successors, the opcode in B2,
\* whether the constants are emitted at their uses, what B4 returns, the
\* phi list and deleted-phi list of B4 over an environment of three slots,
\* the number of declared parameters with the index of the HParameter, and
\* whether B1's comparison reads the constant (so that it is resolved before
\* B2 is reached) or compares the converted parameter with itself, and the
\* representations the HChange of B4 converts between (its operand is the
\* value of the diamond that has the source representation), and which of the
\* sum and the change of B4 are themselves emitted at their uses, so that
\* one materialization starts another, and whether the arithmetic is done in
\* Integer32 or in Smi representation (B2 then combines the two constants),
\* and whether the context has uses (the HChange of B4 then reads it when its
\* source representation is Tagged), and which instruction of B4, if any,
\* reads the first phi of B4.
Diamond(p) ==
  LET phiIds == [k \in 1 .. Len(p.phis) |-> 23 + k]
      instrs ==
        << MkValue([kind |-> "BlockEntry", block |-> 0]),
           MkValue([kind |-> "Parameter", rep |-> "Tagged", index |-> p.index]),
           MkValue([kind |-> "Context", rep |-> "Tagged", has_uses |-> p.ctx_uses]),
           MkValue([kind |-> "Constant", rep |-> p.arith, value |-> p.value,
                    emit |-> p.emit]),
           MkValue([kind |-> "Constant", rep |-> p.ret.rep, value |-> p.value5,
                    smi_object |-> p.ret.smi_object, emit |-> p.emit]),
           MkValue([kind |-> "Simulate", slot |-> 0, left |-> 2]),
           MkValue([kind |-> "Change", rep |-> "Integer32", left |-> 2,
                    from |-> "Tagged", to |-> "Integer32"]),
           MkValue([kind |-> "Goto", succ1 |-> 1, known |-> 1]),
           \* B1
           MkValue([kind |-> "BlockEntry", block |-> 1]),
           MkValue([kind |-> "CompareNumericAndBranch", rep |-> "Integer32",
                    left |-> 7, right |-> p.cmp_right, token |-> p.token,
                    succ1 |-> IF p.swap THEN 3 ELSE 2,
                    succ2 |-> IF p.swap THEN 2 ELSE 3]),
           \* B2
           MkValue([kind |-> "BlockEntry", block |-> 2]),
           MkValue([kind |-> p.opX, rep |-> p.arith,
                    left |-> IF p.arith = "Smi" THEN 5 ELSE 7, right |-> 4]),
           MkValue([kind |-> "Simulate", slot |-> 1, left |-> 12]),
           MkValue([kind |-> "Goto", succ1 |-> 4, known |-> 4]),
           \* B3
           MkValue([kind |-> "BlockEntry", block |-> 3]),
           MkValue([kind |-> "Add", rep |-> p.arith,
                    left |-> IF p.arith = "Smi" THEN 5 ELSE 7, right |-> 4]),
           MkValue([kind |-> "Simulate", slot |-> 2, left |-> 16]),
           MkValue([kind |-> "Goto", succ1 |-> 4, known |-> 4]),
           \* B4
           MkValue([kind |-> "BlockEntry", block |-> 4]),
           MkValue([kind |-> "Add", rep |-> p.arith, left |-> 4,
                    right |-> IF p.phi_use = "add" THEN 24
                              ELSE IF p.arith = "Smi" THEN 5 ELSE 7,
                    emit |-> 20 \in p.lazy]),
           MkValue([kind |-> "Change", rep |-> p.chg.to, emit |-> 21 \in p.lazy,
                    left |-> CASE p.chg.from = "Integer32" -> 20
                               [] p.chg.from = "Tagged" ->
                                    IF p.phi_use = "change" THEN 24
                                    ELSE IF p.ctx_uses THEN 3 ELSE 2
                               [] OTHER -> 5,
                    from |-> p.chg.from, to |-> p.chg.to,
                    can_overflow |-> p.ret.can_overflow]),
           MkValue([kind |-> "Return",
                    left |-> IF p.phi_use = "return" THEN 24
                             ELSE IF p.ret.change THEN 21 ELSE 5]),
           \* graph_->GetConstantUndefined()
           MkValue([kind |-> "Constant", rep |-> "Tagged", emit |-> TRUE]) >>
      phis == [k \in 1 .. Len(p.phis) |->
                 MkValue([kind |-> "Phi", block |-> 4,
                          rep |-> IF p.phi_use = "add" THEN p.arith ELSE "Tagged",
                          merged_index |-> p.phis[k]])]
  IN [values |-> instrs \o phis,
      undefined |-> 23,
      start_environment |-> <<2, 23, 23>>,
      num_parameters |-> p.num_parameters,
      is_stub |-> FALSE,
      saves_caller_doubles |-> FALSE,
      blocks |->
        << MkBlock([is_start |-> TRUE, instrs |-> <<1, 2, 3, 4, 5, 23, 6, 7, 8>>]),
           MkBlock([predecessors |-> <<0>>, instrs |-> <<9, 10>>]),
           MkBlock([predecessors |-> <<1>>, instrs |-> <<11, 12, 13, 14>>]),
           MkBlock([predecessors |-> <<1>>, instrs |-> <<15, 16, 17, 18>>]),
           MkBlock([predecessors |-> IF p.swap THEN <<3, 2>> ELSE <<2, 3>>,
                    phis |-> phiIds, deleted_phis |-> p.deleted,
                    instrs |-> <<19, 20, 21, 22>>]) >>]

\* What B4 returns: the tagged sum, or a constant in one of the
\* representations DoConstant distinguishes.
ReturnChoices ==
  { [change |-> TRUE, can_overflow |-> FALSE, rep |-> "Smi", smi_object |-> FALSE],
    [change |-> TRUE, can_overflow |-> TRUE, rep |-> "Smi", smi_object |-> FALSE],
    [change |-> FALSE, can_overflow |-> FALSE, rep |-> "Smi", smi_object |-> FALSE],
    [change |-> FALSE, can_overflow |-> FALSE, rep |-> "Tagged", smi_object |-> TRUE],
    [change |-> FALSE, can_overflow |-> FALSE, rep |-> "Tagged", smi_object |-> FALSE],
    [change |-> FALSE, can_overflow |-> FALSE, rep |-> "Double", smi_object |-> FALSE] }

\* The phi lists (merged indexes, -1 for a phi without one) and deleted-phi
\* lists of the join block.
PhiLists == {<<>>, <<1>>, <<0, 2>>, <<0 - 1, 1>>}
DeletedLists == {<<>>, <<1>>, <<3>>, <<2, 5>>}

DefaultParams ==
  [swap |-> FALSE, opX |-> "Add", emit |-> TRUE, token |-> "LT", value |-> 1,
   ret |-> [change |-> TRUE, can_overflow |-> FALSE, rep |-> "Smi",
            smi_object |-> FALSE],
   phis |-> <<1>>, deleted |-> <<>>, num_parameters |-> 1, index |-> 1,
   cmp_right |-> 4, chg |-> [from |-> "Integer32", to |-> "Tagged"],
   lazy |-> {}, arith |-> "Integer32", value5 |-> 1, ctx_uses |-> FALSE,
   phi_use |-> "none"]

\* The values of the two Smi constants that B2 combines when the arithmetic
\* of the diamond is done in Smi representation.
SmiSamples == {0 - MaxSmall, 0, MaxSmall + 1, 32768}

\* One group of parameters varies at a time, the others keep their defaults.
Params ==
  { [DefaultParams EXCEPT !.swap = s, !.phis = ph, !.deleted = d] :
      s \in BOOLEAN, ph \in PhiLists, d \in DeletedLists }
  \cup
  { [DefaultParams EXCEPT !.opX = o, !.emit = e, !.swap = s] :
      o \in {"Add", "Sub", "Mul", "Typeof", "Bailout"}, e \in BOOLEAN,
      s \in BOOLEAN }
  \cup
  { [DefaultParams EXCEPT !.ret = r, !.emit = e, !.token = t] :
      r \in ReturnChoices, e \in BOOLEAN, t \in {"LT", "EQ_STRICT"} }
  \cup
  { [DefaultParams EXCEPT !.value = v, !.value5 = v, !.emit = e] :
      v \in {0 - 1, 2147483647}, e \in BOOLEAN }
  \cup
  { [DefaultParams EXCEPT !.num_parameters = q[1], !.index = q[2]] :
      q \in { r \in (0 .. MaxParams) \X (0 .. MaxParams) : r[2] <= r[1] } }
  \cup
  { [DefaultParams EXCEPT !.opX = o, !.emit = e, !.cmp_right = 7] :
      o \in {"Add", "Sub", "Mul"}, e \in BOOLEAN }
  \cup
  { [DefaultParams EXCEPT
       !.chg = [from |-> c[1], to |-> c[2]],
       !.ret = [change |-> TRUE, can_overflow |-> co,
                rep |-> IF c[1] = "Double" THEN "Double" ELSE "Smi",
                smi_object |-> FALSE]] :
      c \in { r \in {"Smi", "Tagged", "Integer32", "Double"}
                      \X {"Smi", "Tagged", "Integer32", "Double"} : r[1] # r[2] },
      co \in BOOLEAN }
  \cup
  { [DefaultParams EXCEPT !.lazy = l, !.emit = e, !.cmp_right = c] :
      l \in SUBSET {20, 21}, e \in BOOLEAN, c \in {4, 7} }
  \cup
  { [DefaultParams EXCEPT !.arith = "Smi", !.cmp_right = 7,
                            !.chg = [from |-> "Smi", to |-> "Tagged"],
                          !.opX = o, !.emit = e, !.value5 = a, !.value = c] :
      o \in {"Add", "Sub", "Mul"}, e \in BOOLEAN, a \in SmiSamples,
      c \in SmiSamples }
  \cup
  { [DefaultParams EXCEPT !.ctx_uses = u, !.chg = [from |-> f, to |-> t],
                          !.lazy = l] :
      u \in BOOLEAN, f \in {"Tagged", "External", "None"},
      t \in {"Integer32", "Smi"}, l \in {{}, {21}} }
  \cup
  { [DefaultParams EXCEPT !.phi_use = u, !.chg = [from |-> "Tagged", to |-> t]] :
      u \in {"return", "add", "change"}, t \in {"Integer32", "Smi"} }

Graphs == { Diamond(p) : p \in Params }

\* The value of graph while no NewChunk call is running.
NoGraph ==
  [values |-> <<>>, undefined |-> NoValue, start_environment |-> <<>>,
   num_parameters |-> 0, is_stub |-> FALSE, saves_caller_doubles |-> FALSE,
   blocks |-> <<>>]

ValueIds == 1 .. Len(graph.values)
BlockIds == 0 .. (Len(graph.blocks) - 1)
ValueAt(v) == graph.values[v]
BlockAt(blk) == graph.blocks[blk + 1]
EmitAtUses(v) == ValueAt(v).emit

\* block->end(): the last instruction of the block.
End(blk) == ValueAt(BlockAt(blk).instrs[Len(BlockAt(blk).instrs)])
\* HControlInstruction::FirstSuccessor / SecondSuccessor (NULL when absent).
FirstSuccessor(blk) == End(blk).succ1
SecondSuccessor(blk) == End(blk).succ2

----------------------------------------------------------------------------
(* llvm::Value handles.  A ConstantInt is identified by its bits (LLVM     *)
(* uniques constants), an instruction by its creation number, an argument  *)
(* of function_ by its position.  A native block is identified by its      *)
(* creation number, 0 standing for a null llvm::BasicBlock*.               *)

NullHandle == [k |-> "null", n |-> 0, w |-> ZeroWord]
ConstHandle(w) == [k |-> "const", n |-> 0, w |-> w]
InstHandle(n) == [k |-> "inst", n |-> n, w |-> ZeroWord]
ArgHandle(n) == [k |-> "arg", n |-> n, w |-> ZeroWord]
IsNull(h) == h.k = "null"

\* One instruction appended to a native block: its opcode, the handle of its
\* result, its operands and, for a branch, its target blocks.
Emitted(o, h, a1, a2, t1, t2) ==
  [op |-> o, h |-> h, a |-> a1, b |-> a2, t1 |-> t1, t2 |-> t2]

\* The builder before Build() and the IR fields before anything touched them.
\* fatal holds the message of the V8_Fatal that ended the process, "" if none;
\* ret and retbb hold what the last Use of a value / of a block returned;
\* visits, created, uses and returned count and record, per value or block, the
\* VisitInstruction calls, the llvm::BasicBlock::Create calls, and the
\* Use calls on the value that returned, with what they returned; depth is
\* the number of VisitInstruction calls on the stack and max_depth the most
\* it has been.  traps is the outcome, for the statement being run, of handing
\* a null llvm::Value* to an IRBuilder call that dereferences it.
NewBuilder(g) ==
  LET values == 1 .. Len(g.values)
      blocks == 0 .. (Len(g.blocks) - 1)
  IN [status |-> "UNUSED", fatal |-> "", module_ |-> 0 - 1,
      num_args |-> 0,
      llvm_value |-> [v \in values |-> NullHandle],
      llvm_basic_block |-> [blk \in blocks |-> 0],
      code |-> <<>>, insts |-> 0, llvm_ir_builder_ |-> 0,
      envs |-> <<g.start_environment>>,
      last_environment |-> [blk \in blocks |-> 0],
      argument_count |-> [blk \in blocks |-> 0 - 1],
      current_block_ |-> NoBlock, next_block_ |-> NoBlock,
      current_instruction_ |-> NoValue, argument_count_ |-> 0,
      ret |-> NullHandle, retbb |-> 0,
      depth |-> 0, max_depth |-> 0, traps |-> FALSE,
      visits |-> [v \in values |-> 0],
      created |-> [blk \in blocks |-> 0],
      uses |-> [v \in values |-> 0],
      returned |-> [v \in values |-> {}]]

Ok(st) == st.fatal = ""

\* V8_Fatal: the process ends here, in every build type.
Fatal(st, msg) == [st EXCEPT !.fatal = msg]

\* A handler that gives up by Abort() as Lithium's handlers do.
UnimplementedAborts(st) == [st EXCEPT !.status = "ABORTED"]

\* UNIMPLEMENTED() is FATAL("unimplemented code").
Unimplemented(st) == Fatal(st, "unimplemented code")

\* UNREACHABLE() is FATAL("unreachable code").
Unreachable(st) == Fatal(st, "unreachable code")

\* DCHECK(cond): checked in a DEBUG build only.
DCheck(st, cond) ==
  IF Ok(st) /\ debug /\ ~cond THEN Fatal(st, "Debug check failed") ELSE st

\* CHECK(cond): checked in every build.
Check(st, cond) == IF Ok(st) /\ ~cond THEN Fatal(st, "Check failed") ELSE st

\* An IRBuilder call reads through the operand h (its type, its being a
\* constant).  With h null that is undefined behaviour: the process dies on
\* the access or the call goes on and the null pointer becomes an operand.
Operand(st, h) ==
  IF Ok(st) /\ IsNull(h) /\ st.traps THEN Fatal(st, "null dereference") ELSE st

\* LChunkBuilderBase::Abort(reason): the bailout that is_aborted() tests for.
Abort(st) == [st EXCEPT !.status = "ABORTED"]

is_aborted(st) == st.status = "ABORTED"
is_building(st) == st.status = "BUILDING"

\* llvm_ir_builder_->Create...: appends to the block the builder points at.
Insert(st, e) == [st EXCEPT !.code[st.llvm_ir_builder_] = Append(@, e)]

----------------------------------------------------------------------------
(* The IRBuilder calls.  IRBuilder<> folds an operation on two constants   *)
(* into a constant and inserts nothing; anything else becomes a new        *)
(* instruction of the block the builder points at.  Each leaves the handle *)
(* of its result in ret.                                                   *)

NewInst(st, o, a1, a2, t1, t2) ==
  LET h == InstHandle(st.insts + 1)
  IN [Insert(st, Emitted(o, h, a1, a2, t1, t2)) EXCEPT !.insts = @ + 1, !.ret = h]

FoldBinOp(o, w1, w2) ==
  CASE o = "add" -> AddW(w1, w2)
    [] o = "sub" -> SubW(w1, w2)
    [] o = "mul" -> MulW(w1, w2)

\* CreateAdd, CreateSub, CreateMul.
CreateBinOp(st, o, a1, a2) ==
  IF a1.k = "const" /\ a2.k = "const"
  THEN [st EXCEPT !.ret = ConstHandle(FoldBinOp(o, a1.w, a2.w))]
  ELSE AndThen(Operand(Operand(st, a1), a2),
               LAMBDA s : NewInst(s, o, a1, a2, 0, 0))

\* CreateShl(value, kSmiShift).
CreateShl(st, a1, n) ==
  IF a1.k = "const"
  THEN [st EXCEPT !.ret = ConstHandle(Shl(a1.w, n))]
  ELSE AndThen(Operand(st, a1),
               LAMBDA s : NewInst(s, "shl", a1, ConstHandle(SignExtend32(n)), 0, 0))

\* CreateLShr(value, kSmiShift).
CreateLShr(st, a1, n) ==
  IF a1.k = "const"
  THEN [st EXCEPT !.ret = ConstHandle(LShr(a1.w, n))]
  ELSE AndThen(Operand(st, a1),
               LAMBDA s : NewInst(s, "lshr", a1, ConstHandle(SignExtend32(n)), 0, 0))

\* CreateICmp(pred, l, r); no graph of the model compares two constants.
CreateICmp(st, p, a1, a2) ==
  AndThen(Operand(Operand(st, a1), a2), LAMBDA s : NewInst(s, p, a1, a2, 0, 0))

\* CreateCondBr on the compare just created, CreateBr, and CreateRet, for
\* which a null operand is defined: it makes a return of no value.
CreateCondBr(st, c, t1, t2) == NewInst(st, "condbr", c, NullHandle, t1, t2)
CreateBr(st, t) == NewInst(st, "br", NullHandle, NullHandle, t, 0)
CreateRet(st, a1) == NewInst(st, "ret", a1, NullHandle, 0, 0)

set_llvm_value(st, v, h) == [st EXCEPT !.llvm_value[v] = h]

----------------------------------------------------------------------------
(* The materialization cache: Use of a block and Use of a value.           *)

\* instr->set_llvm_value(<the handle the last Create... or Use returned>).
SetToRet(st, v) == set_llvm_value(st, v, st.ret)

\* Use of a block without the test of block->llvm_basic_block().
UseBlockAlwaysCreates(st, blk) ==
  [st EXCEPT !.code = Append(@, <<>>), !.llvm_basic_block[blk] = Len(st.code) + 1,
             !.created[blk] = @ + 1, !.retbb = Len(st.code) + 1]

UseBlock(st, blk) ==
  IF st.llvm_basic_block[blk] = 0
  THEN [st EXCEPT !.code = Append(@, <<>>),
                  !.llvm_basic_block[blk] = Len(st.code) + 1,
                  !.created[blk] = @ + 1, !.retbb = Len(st.code) + 1]
  ELSE [st EXCEPT !.retbb = st.llvm_basic_block[blk]]

RECURSIVE VisitInstruction(_, _)

\* DCHECK(value->llvm_value()); return value->llvm_value();
ReturnValue(st, v) ==
  AndThen(IF Ok(st) /\ debug /\ IsNull(st.llvm_value[v])
          THEN Fatal(st, "Debug check failed: value->llvm_value()") ELSE st,
          LAMBDA s : [s EXCEPT !.ret = s.llvm_value[v], !.uses[v] = @ + 1,
                               !.returned[v] = @ \cup {s.llvm_value[v]}])

\* Use of a value without the test of value->llvm_value().
UseValueAlwaysVisits(st, v) ==
  IF EmitAtUses(v)
  THEN AndThen(VisitInstruction(st, v), LAMBDA s : ReturnValue(s, v))
  ELSE ReturnValue(st, v)

UseValue(st, v) ==
  IF EmitAtUses(v) /\ IsNull(st.llvm_value[v])
  THEN AndThen(VisitInstruction(st, v), LAMBDA s : ReturnValue(s, v))
  ELSE ReturnValue(st, v)

\* The two Use calls that are the arguments of one call: the compiler chooses
\* their order.  The result holds the state and what Use(left) and Use(right)
\* returned.
UseSecond(s1, v, is_left) ==
  With(AndThen(s1, LAMBDA s : UseValue(s, v)),
       LAMBDA s2 : [st |-> s2,
                    l |-> IF is_left THEN s2.ret ELSE s1.ret,
                    r |-> IF is_left THEN s1.ret ELSE s2.ret])

UseBoth(st, left, right) ==
  IF rtl
  THEN UseSecond(UseValue(st, right), left, TRUE)
  ELSE UseSecond(UseValue(st, left), right, FALSE)

UseSecondBlock(s1, blk, is_first) ==
  With(UseBlock(s1, blk),
       LAMBDA s2 : [st |-> s2,
                    t1 |-> IF is_first THEN s2.retbb ELSE s1.retbb,
                    t2 |-> IF is_first THEN s1.retbb ELSE s2.retbb])

UseBothBlocks(st, b1, b2) ==
  IF rtl
  THEN UseSecondBlock(UseBlock(st, b2), b1, TRUE)
  ELSE UseSecondBlock(UseBlock(st, b1), b2, FALSE)

----------------------------------------------------------------------------
(* The representation model.                                               *)

SmiValuesAre32Bits == TRUE

\* The bits CreateShl(., kSmiShift) gives Integer32ToSmi for a constant operand.
Integer32ToSmiBits(w) == Shl(w, kSmiShift)

\* The bits CreateLShr(., kSmiShift) gives SmiToInteger32 for a constant operand.
SmiToInteger32Bits(w) == LShr(w, kSmiShift)

SmiToInteger32(st, val) ==
  IF SmiValuesAre32Bits
  THEN AndThen(UseValue(st, val), LAMBDA s : CreateLShr(s, s.ret, kSmiShift))
  ELSE Unimplemented(st)

Integer32ToSmi(st, val) ==
  AndThen(UseValue(st, val), LAMBDA s : CreateShl(s, s.ret, kSmiShift))

----------------------------------------------------------------------------
(* The opcode handlers.                                                    *)

DoBlockEntry(st, v) == UseBlock(st, ValueAt(v).block)

DoContext(st, v) ==
  IF ~ValueAt(v).has_uses THEN st
  ELSE IF graph.is_stub THEN Unimplemented(st)
  ELSE st

\* while (--index + num_parameters > 0) ++it;
RECURSIVE ArgWalk(_, _, _)
ArgWalk(index, num_parameters, it) ==
  IF (index - 1) + num_parameters > 0
  THEN ArgWalk(index - 1, num_parameters, it + 1)
  ELSE it

\* DoParameter binding left to right behind the two hidden arguments.
DoParameterLeftToRight(st, v) ==
  set_llvm_value(st, v, ArgHandle(ValueAt(v).index + 2))

DoParameter(st, v) ==
  set_llvm_value(st, v,
                 ArgHandle(ArgWalk(0 - ValueAt(v).index, graph.num_parameters + 3, 0)))

DoArgumentsObject(st, v) == st

\* HSimulate::ReplayEnvironment on the last environment of the current block:
\* the simulate binds its value to its assigned index.
ReplayEnvironment(st, v) ==
  [st EXCEPT !.envs[st.last_environment[st.current_block_]][ValueAt(v).slot + 1] =
               ValueAt(v).left]

DoSimulate(st, v) == ReplayEnvironment(st, v)

DoStackCheck(st, v) == st

\* int32_value << kSmiShift on an int64_t, and the word of a Smi object, are
\* both the value shifted into the upper half.
DoConstant(st, v) ==
  CASE ValueAt(v).rep = "Smi" ->
         set_llvm_value(st, v,
                        ConstHandle(Shl(SignExtend32(ValueAt(v).value), kSmiShift)))
    [] ValueAt(v).rep = "Integer32" ->
         set_llvm_value(st, v, ConstHandle(SignExtend32(ValueAt(v).value)))
    [] ValueAt(v).rep = "Double" -> Unimplemented(st)
    [] ValueAt(v).rep = "External" -> Unimplemented(st)
    [] ValueAt(v).rep = "Tagged" ->
         IF ValueAt(v).smi_object
         THEN set_llvm_value(st, v,
                             ConstHandle(Shl(SignExtend32(ValueAt(v).value), kSmiShift)))
         ELSE Unimplemented(st)
    [] OTHER -> Unreachable(st)

\* DoReturn from DCHECK(!info()->IsStub()) on.
ReturnTail(st, v) ==
  AndThen(DCheck(st, ~graph.is_stub),
          LAMBDA s :
            IF ValueAt(v).constant_parameter_count
            THEN AndThen(UseValue(s, ValueAt(v).left),
                         LAMBDA s2 : CreateRet(s2, s2.ret))
            ELSE Unimplemented(s))

DoReturn(st, v) ==
  IF graph.is_stub THEN Unimplemented(st)
  ELSE IF graph.saves_caller_doubles THEN Unimplemented(st)
  ELSE ReturnTail(st, v)

\* The checks on the representations of the operands that DoAdd, DoSub, DoMul
\* and DoCompareNumericAndBranch start with.
DCheckOperandReps(st, v) ==
  DCheck(DCheck(st, ValueAt(ValueAt(v).left).rep = ValueAt(v).rep),
         ValueAt(ValueAt(v).right).rep = ValueAt(v).rep)

\* CreateAdd(Use(left), Use(right)) and set_llvm_value, given the two Uses.
AddTail(u, v) ==
  AndThen(u.st,
          LAMBDA s : AndThen(CreateBinOp(s, "add", u.l, u.r),
                             LAMBDA s2 : SetToRet(s2, v)))

DoAdd(st, v) ==
  IF ValueAt(v).rep \in {"Integer32", "Smi"}
  THEN AndThen(DCheckOperandReps(st, v),
               LAMBDA s : AddTail(UseBoth(s, ValueAt(v).left, ValueAt(v).right), v))
  ELSE Unimplemented(st)

\* DoSub and DoMul read left->llvm_value() and right->llvm_value() directly,
\* under a CHECK.
DoSubMul(st, v, o) ==
  IF ValueAt(v).rep \in {"Integer32", "Smi"}
  THEN AndThen(
         Check(Check(DCheckOperandReps(st, v),
                     ~IsNull(st.llvm_value[ValueAt(v).left])),
               ~IsNull(st.llvm_value[ValueAt(v).right])),
         LAMBDA s : SetToRet(CreateBinOp(s, o, s.llvm_value[ValueAt(v).left],
                                         s.llvm_value[ValueAt(v).right]), v))
  ELSE Unimplemented(st)

DoSub(st, v) == DoSubMul(st, v, "sub")
DoMul(st, v) == DoSubMul(st, v, "mul")

\* instr->set_llvm_value(Use(val)).
SetToUse(st, v, val) == AndThen(UseValue(st, val), LAMBDA s : SetToRet(s, v))

\* A DoChange that shifts whatever the flag says and has no other case.
ChangeFromIgnoresOverflow(st, v, from, to, val) ==
  IF from = "Integer32" /\ to = "Tagged"
  THEN AndThen(Integer32ToSmi(st, val), LAMBDA s : SetToRet(s, v))
  ELSE Unimplemented(st)

\* DoChange once a Smi source that does not go to Tagged counts as Tagged.
ChangeFrom(st, v, from, to, val) ==
  CASE from = "Tagged" ->
         IF to = "Double" THEN Unimplemented(st)
         ELSE IF to = "Smi" THEN SetToUse(st, v, val)
         ELSE AndThen(DCheck(st, to = "Integer32"),
                      LAMBDA s : AndThen(SmiToInteger32(s, val),
                                         LAMBDA s2 : SetToRet(s2, v)))
    [] from = "Double" -> Unimplemented(st)
    [] from = "Integer32" ->
         IF to = "Tagged"
         THEN IF ~ValueAt(v).can_overflow
              THEN AndThen(Integer32ToSmi(st, val), LAMBDA s : SetToRet(s, v))
              ELSE Unimplemented(st)
         ELSE IF to = "Smi" THEN Unimplemented(st)
         ELSE AndThen(DCheck(st, to = "Double"), LAMBDA s : Unimplemented(s))
    [] OTHER -> st

DoChange(st, v) ==
  IF ValueAt(v).from = "Smi" /\ ValueAt(v).to = "Tagged"
  THEN SetToUse(st, v, ValueAt(v).left)
  ELSE ChangeFrom(st, v,
                  IF ValueAt(v).from = "Smi" THEN "Tagged" ELSE ValueAt(v).from,
                  ValueAt(v).to, ValueAt(v).left)

\* CreateCondBr(compare, Use(SuccessorAt(0)), Use(SuccessorAt(1))) and
\* set_llvm_value(branch), given the compare and the two Uses of the blocks.
CondBrTail(t, compare, v) == SetToRet(CreateCondBr(t.st, compare, t.t1, t.t2), v)

\* The Integer32 case from CreateICmp on, given the two Uses of the operands.
CompareTail(u, p, v) ==
  AndThen(u.st,
          LAMBDA s :
            AndThen(CreateICmp(s, p, u.l, u.r),
                 LAMBDA s2 : CondBrTail(UseBothBlocks(s2, ValueAt(v).succ1,
                                                      ValueAt(v).succ2),
                                        s2.ret, v)))

\* DoCompareNumericAndBranch once TokenToPredicate gave p.
CompareWith(st, v, p) ==
  IF p.fatal # "" THEN Fatal(st, p.fatal)
  ELSE IF ValueAt(v).rep = "Smi" THEN Unimplemented(st)
  ELSE IF ValueAt(v).rep = "Integer32"
  THEN CompareTail(UseBoth(st, ValueAt(v).left, ValueAt(v).right), p.pred, v)
  ELSE AndThen(DCheck(st, ValueAt(v).rep = "Double"), LAMBDA s : Unimplemented(s))

DoCompareNumericAndBranch(st, v) ==
  AndThen(DCheckOperandReps(st, v),
          LAMBDA s :
            CompareWith(s, v,
                        TokenToPredicate(
                          ValueAt(v).token,
                          \/ ValueAt(v).rep = "Double"
                          \/ ValueAt(ValueAt(v).left).uint32
                          \/ ValueAt(ValueAt(v).right).uint32)))

\* current->CompileToLLVM(this): the handler of the opcode.  "Bailout" stands
\* for a handler that gives up through Abort().
CompileToLLVM(st, v) ==
  CASE ValueAt(v).kind = "BlockEntry" -> DoBlockEntry(st, v)
    [] ValueAt(v).kind = "Context" -> DoContext(st, v)
    [] ValueAt(v).kind = "Parameter" -> DoParameter(st, v)
    [] ValueAt(v).kind = "ArgumentsObject" -> DoArgumentsObject(st, v)
    [] ValueAt(v).kind = "Simulate" -> DoSimulate(st, v)
    [] ValueAt(v).kind = "StackCheck" -> DoStackCheck(st, v)
    [] ValueAt(v).kind = "Constant" -> DoConstant(st, v)
    [] ValueAt(v).kind = "Return" -> DoReturn(st, v)
    [] ValueAt(v).kind = "Add" -> DoAdd(st, v)
    [] ValueAt(v).kind = "Sub" -> DoSub(st, v)
    [] ValueAt(v).kind = "Mul" -> DoMul(st, v)
    [] ValueAt(v).kind = "Change" -> DoChange(st, v)
    [] ValueAt(v).kind = "CompareNumericAndBranch" -> DoCompareNumericAndBranch(st, v)
    [] ValueAt(v).kind = "Bailout" -> Abort(st)
    [] ValueAt(v).kind \in StubKinds -> Unimplemented(st)

\* HControlInstruction::KnownSuccessorBlock(&successor) && successor != NULL.
HasKnownSuccessor(v) ==
  ValueAt(v).kind \in ControlKinds /\ ValueAt(v).known # NoBlock

\* llvm_ir_builder_->CreateBr(Use(successor)).
BranchTo(st, blk) == With(UseBlock(st, blk), LAMBDA s : CreateBr(s, s.retbb))

\* A VisitInstruction that sends every instruction to its opcode handler.
VisitBodyAlwaysCompiles(st, cur) ==
  IF ValueAt(cur).dummy THEN Unimplemented(st) ELSE CompileToLLVM(st, cur)

\* VisitInstruction between the two assignments to current_instruction_.
VisitBody(st, cur) ==
  IF ValueAt(cur).dummy THEN Unimplemented(st)
  ELSE IF HasKnownSuccessor(cur) THEN BranchTo(st, ValueAt(cur).known)
  ELSE CompileToLLVM(st, cur)

\* VisitInstruction without the assignment of old_current at its end.
VisitInstructionKeepsCurrent(st, cur) ==
  AndThen(VisitBody([st EXCEPT !.current_instruction_ = cur, !.visits[cur] = @ + 1,
                               !.depth = @ + 1,
                               !.max_depth = IF st.depth + 1 > @
                                             THEN st.depth + 1 ELSE @],
                    cur),
          LAMBDA s : [s EXCEPT !.depth = st.depth])

VisitInstruction(st, cur) ==
  AndThen(VisitBody([st EXCEPT !.current_instruction_ = cur, !.visits[cur] = @ + 1,
                               !.depth = @ + 1,
                               !.max_depth = IF st.depth + 1 > @
                                             THEN st.depth + 1 ELSE @],
                    cur),
          LAMBDA s : [s EXCEPT !.current_instruction_ = st.current_instruction_,
                               !.depth = st.depth])

----------------------------------------------------------------------------
(* DoBasicBlock: the environment and argument count a block starts with.   *)

\* HEnvironment::SetValueAt(index, value).
SetValueAt(env, index, value) == [env EXCEPT ![index + 1] = value]

\* The copy decision with "and" between the two comparisons.
NeedsCopyWhenBothExceed(blk, pred_block) ==
  /\ SecondSuccessor(pred_block) # NoBlock
  /\ FirstSuccessor(pred_block) > blk
  /\ SecondSuccessor(pred_block) > blk

\* The copy decision looking for a successor already visited.
NeedsCopyForEarlierSibling(blk, pred_block) ==
  /\ SecondSuccessor(pred_block) # NoBlock
  /\ \/ FirstSuccessor(pred_block) < blk
     \/ SecondSuccessor(pred_block) < blk

\* "Only copy the environment, if it is later used again."
NeedsCopy(blk, pred_block) ==
  /\ SecondSuccessor(pred_block) # NoBlock
  /\ \/ FirstSuccessor(pred_block) > blk
     \/ SecondSuccessor(pred_block) > blk

\* The phi loop writing at the loop index instead of phi->merged_index().
RECURSIVE MergePhisAtLoopIndex(_, _, _)
MergePhisAtLoopIndex(env, phis, i) ==
  IF i >= Len(phis) THEN env
  ELSE MergePhisAtLoopIndex(
         IF ValueAt(phis[i + 1]).merged_index >= 0
         THEN SetValueAt(env, i, phis[i + 1]) ELSE env,
         phis, i + 1)

\* for (i = 0; i < block->phis()->length(); ++i), from i on.
RECURSIVE MergePhis(_, _, _)
MergePhis(env, phis, i) ==
  IF i >= Len(phis) THEN env
  ELSE MergePhis(
         IF ValueAt(phis[i + 1]).merged_index >= 0
         THEN SetValueAt(env, ValueAt(phis[i + 1]).merged_index, phis[i + 1])
         ELSE env,
         phis, i + 1)

\* The deleted-phi loop writing at the loop index instead of the listed index.
RECURSIVE MergeDeletedPhisAtLoopIndex(_, _, _)
MergeDeletedPhisAtLoopIndex(env, deleted, i) ==
  IF i >= Len(deleted) THEN env
  ELSE MergeDeletedPhisAtLoopIndex(
         IF deleted[i + 1] < Len(env)
         THEN SetValueAt(env, i, graph.undefined) ELSE env,
         deleted, i + 1)

\* for (i = 0; i < block->deleted_phis()->length(); ++i), from i on.
RECURSIVE MergeDeletedPhis(_, _, _)
MergeDeletedPhis(env, deleted, i) ==
  IF i >= Len(deleted) THEN env
  ELSE MergeDeletedPhis(
         IF deleted[i + 1] < Len(env)
         THEN SetValueAt(env, deleted[i + 1], graph.undefined) ELSE env,
         deleted, i + 1)

\* block->UpdateEnvironment(env).
UpdateEnvironment(st, blk, env) == [st EXCEPT !.last_environment[blk] = env]

\* The start block: graph_->start_environment(), argument_count_ = 0.
BindStart(st, blk) == [UpdateEnvironment(st, blk, 1) EXCEPT !.argument_count_ = 0]

\* The single predecessor, from the copy decision on.
BindSingleTail(st, blk, pred_block) ==
  AndThen(
    DCheck(
      IF NeedsCopy(blk, pred_block)
      THEN [st EXCEPT !.envs = Append(@, st.envs[st.last_environment[pred_block]]),
                      !.last_environment[blk] = Len(st.envs) + 1]
      ELSE UpdateEnvironment(st, blk, st.last_environment[pred_block]),
      st.argument_count[pred_block] >= 0),
    LAMBDA s : [s EXCEPT !.argument_count_ = s.argument_count[pred_block]])

\* The single predecessor.
BindSingle(st, blk, pred_block) ==
  AndThen(
    DCheck(DCheck(DCheck(st, Len(BlockAt(blk).phis) = 0),
                  st.last_environment[pred_block] # 0),
           SecondSuccessor(pred_block) # NoBlock \/ FirstSuccessor(pred_block) = blk),
    LAMBDA s : BindSingleTail(s, blk, pred_block))

\* The state join: the phis and deleted phis written into the last
\* environment of the first predecessor, which becomes the block's.
BindJoin(st, blk, pred_block) ==
  [st EXCEPT
     !.envs[st.last_environment[pred_block]] =
        MergeDeletedPhis(MergePhis(@, BlockAt(blk).phis, 0),
                         BlockAt(blk).deleted_phis, 0),
     !.last_environment[blk] = st.last_environment[pred_block],
     !.argument_count_ = st.argument_count[pred_block]]

\* The three cases that give the block its environment and argument_count_.
BindEnvironment(st, blk) ==
  IF BlockAt(blk).is_start THEN BindStart(st, blk)
  ELSE IF Len(BlockAt(blk).predecessors) = 1
  THEN BindSingle(st, blk, BlockAt(blk).predecessors[1])
  ELSE BindJoin(st, blk, BlockAt(blk).predecessors[1])

\* llvm_ir_builder_ onto the block's native block; current_block_, next_block_.
EnterBlock(st, blk, next_block) ==
  [st EXCEPT !.llvm_ir_builder_ = st.llvm_basic_block[blk],
             !.current_block_ = blk, !.next_block_ = next_block]

\* DoBasicBlock up to the instruction loop.
DoBasicBlockEnter(st, blk, next_block) ==
  AndThen(DCheck(st, is_building(st)),
          LAMBDA s : BindEnvironment(EnterBlock(UseBlock(s, blk), blk, next_block),
                                     blk))

\* The loop test with the test of the status left out.
LoopContinuesWhenAborted(st, cur) == cur # 0

\* while (current != NULL && !is_aborted()).
LoopContinues(st, cur) == cur # 0 /\ ~is_aborted(st)

\* A loop body without the test of EmitAtUses.
LoopBodyVisitsAll(st, cur) ==
  VisitInstruction(st, BlockAt(st.current_block_).instrs[cur])

\* The body of the loop: cur is the position in the block's list.
LoopBody(st, cur) ==
  IF ~EmitAtUses(BlockAt(st.current_block_).instrs[cur])
  THEN VisitInstruction(st, BlockAt(st.current_block_).instrs[cur])
  ELSE st

\* A loop that never leaves the instruction it is at.
NextInstructionStays(st, cur) == cur

\* current = current->next(): the next position of the list, 0 after the last.
NextInstruction(st, cur) ==
  IF cur < Len(BlockAt(st.current_block_).instrs) THEN cur + 1 ELSE 0

\* DoBasicBlock after the instruction loop with set_argument_count left out.
DoBasicBlockLeaveWithoutCount(st) ==
  [st EXCEPT !.next_block_ = NoBlock, !.current_block_ = NoBlock]

\* DoBasicBlock after the instruction loop.
DoBasicBlockLeave(st) ==
  [st EXCEPT !.argument_count[st.current_block_] = st.argument_count_,
             !.next_block_ = NoBlock, !.current_block_ = NoBlock]

----------------------------------------------------------------------------
(* The session LLVMGranularity and Build.                                  *)

\* The session before its first use: no module created or added, no machine
\* code generated.  buffers maps the identifier of each module the execution
\* engine has generated code for to the size of its code buffer; last is the
\* identifier whose buffer the memory manager allocated last (-1: none).
NoSession == [count |-> 0, modules |-> {}, buffers |-> <<>>, last |-> 0 - 1]

\* LLVMGranularity::CreateModule: a module named by the session's counter.
CreateModule(sess) == [sess EXCEPT !.count = @ + 1]
ModuleIdentifier(sess) == sess.count

\* LLVMGranularity::AddModule.
AddModule(sess, id) == [sess EXCEPT !.modules = @ \cup {id}]

\* Build up to the loop over the blocks.
BuildEnter(g, sess) ==
  [NewBuilder(g) EXCEPT !.module_ = ModuleIdentifier(sess),
                        !.status = "BUILDING",
                        !.num_args = g.num_parameters + 3]

\* Build with AddModule done before the test of is_aborted().
BuildReturnsNullAfterAddModule(sess, st) == AddModule(sess, st.module_)

\* if (is_aborted()) return NULL: the session as Build leaves it.
BuildReturnsNull(sess, st) == sess

\* Build after the loop: the session as Build leaves it.
BuildFinish(sess, st) == AddModule(sess, st.module_)

----------------------------------------------------------------------------
(* The builder as a state machine.  LLVMChunk::NewChunk constructs a       *)
(* builder and calls Build; Build calls DoBasicBlock for each block; the   *)
(* loop of DoBasicBlock visits one instruction per step.  A V8_Fatal ends  *)
(* the process: from pc = "fatal" nothing happens any more.                *)

NoResults == <<>>
NoBuilder == NewBuilder(NoGraph)
NoCall == [called |-> FALSE, fatal |-> "", pred |-> ""]
NoWord == [called |-> FALSE, w |-> ZeroWord]

Init ==
  /\ pc = "idle"
  /\ debug \in BOOLEAN
  /\ rtl \in BOOLEAN
  /\ graph = NoGraph
  /\ b = NoBuilder
  /\ blockIdx = 0
  /\ current = 0
  /\ session = NoSession
  /\ results = NoResults
  /\ op = "EQ" /\ is_unsigned = FALSE /\ pred = NoCall
  /\ x = 0 /\ smi = NoWord /\ int32 = NoWord
  /\ counter = 0 /\ codes = <<>>

pureVars == <<op, is_unsigned, pred, x, smi, int32>>
codegenVars == <<counter, codes>>

\* LLVMChunk::NewChunk(graph) up to the loop of Build.
NewChunk ==
  /\ pc = "idle"
  /\ Len(results) < MaxBuilds
  /\ \E g \in Graphs :
       /\ graph' = g
       /\ b' = BuildEnter(g, session)
  /\ session' = CreateModule(session)
  /\ blockIdx' = 0
  /\ current' = 0
  /\ pc' = "block"
  /\ UNCHANGED <<debug, rtl, results, pureVars, codegenVars>>

\* Build calls DoBasicBlock(blocks->at(i), next), which runs up to its loop.
BeginBlock ==
  /\ pc = "block"
  /\ b' = DoBasicBlockEnter(
            b, blockIdx,
            IF blockIdx < Len(graph.blocks) - 1 THEN blockIdx + 1 ELSE NoBlock)
  /\ pc' = IF Ok(b') THEN "instr" ELSE "fatal"
  /\ current' = IF Len(BlockAt(blockIdx).instrs) > 0 THEN 1 ELSE 0
  /\ UNCHANGED <<debug, rtl, graph, blockIdx, session, results, pureVars, codegenVars>>

\* One iteration of the loop of DoBasicBlock.  Where the iteration hands a
\* null operand to the IRBuilder, either outcome of that may happen.
VisitNext ==
  /\ pc = "instr"
  /\ LoopContinues(b, current)
  /\ \E traps \in BOOLEAN :
       b' = [LoopBody([b EXCEPT !.traps = traps], current) EXCEPT !.traps = FALSE]
  /\ pc' = IF Ok(b') THEN "instr" ELSE "fatal"
  /\ current' = NextInstruction(b, current)
  /\ UNCHANGED <<debug, rtl, graph, blockIdx, session, results, pureVars, codegenVars>>

\* The loop of DoBasicBlock ends and DoBasicBlock returns to Build.
EndBlock ==
  /\ pc = "instr"
  /\ ~LoopContinues(b, current)
  /\ b' = DoBasicBlockLeave(b)
  /\ current' = 0
  /\ pc' = "blockend"
  /\ UNCHANGED <<debug, rtl, graph, blockIdx, session, results, pureVars, codegenVars>>

\* if (is_aborted()) return NULL; NewChunk hands the NULL on.
ReturnNull ==
  /\ pc = "blockend"
  /\ is_aborted(b)
  /\ session' = BuildReturnsNull(session, b)
  /\ results' = Append(results, [chunk |-> FALSE, llvm_function_id |-> 0 - 1,
                                 module |-> b.module_])
  /\ pc' = "idle"
  /\ UNCHANGED <<debug, rtl, graph, b, blockIdx, current, pureVars, codegenVars>>

\* The next turn of the loop of Build.
NextBlock ==
  /\ pc = "blockend"
  /\ ~is_aborted(b)
  /\ blockIdx < Len(graph.blocks) - 1
  /\ blockIdx' = blockIdx + 1
  /\ pc' = "block"
  /\ UNCHANGED <<debug, rtl, graph, b, current, session, results, pureVars, codegenVars>>

\* After the last block: the identifier, AddModule, DONE, return chunk().
Finish ==
  /\ pc = "blockend"
  /\ ~is_aborted(b)
  /\ blockIdx = Len(graph.blocks) - 1
  /\ session' = BuildFinish(session, b)
  /\ b' = [b EXCEPT !.status = "DONE"]
  /\ results' = Append(results, [chunk |-> TRUE, llvm_function_id |-> b.module_,
                                 module |-> b.module_])
  /\ pc' = "idle"
  /\ UNCHANGED <<debug, rtl, graph, blockIdx, current, pureVars, codegenVars>>

Next ==
  \/ NewChunk
  \/ BeginBlock
  \/ VisitNext
  \/ EndBlock
  \/ ReturnNull
  \/ NextBlock
  \/ Finish

Spec == Init /\ [][Next]_vars

\* The steps of a build once NewChunk has been called.
BuildStep ==
  \/ BeginBlock
  \/ VisitNext
  \/ EndBlock
  \/ ReturnNull
  \/ NextBlock
  \/ Finish

\* The graphs of one NewChunk call followed to its end: those in which one
\* materialization starts another, one that meets a stub and one that bails
\* out.
LiveGraphs ==
  { Diamond([DefaultParams EXCEPT !.lazy = l, !.emit = e, !.cmp_right = c]) :
      l \in SUBSET {20, 21}, e \in BOOLEAN, c \in {4, 7} }
  \cup
  { Diamond([DefaultParams EXCEPT !.opX = o]) : o \in {"Typeof", "Bailout"} }

\* The one NewChunk call of a process that compiles a single function.
NewChunkOnce ==
  /\ pc = "idle"
  /\ results = NoResults
  /\ \E g \in LiveGraphs :
       /\ graph' = g
       /\ b' = BuildEnter(g, session)
  /\ session' = CreateModule(session)
  /\ blockIdx' = 0
  /\ current' = 0
  /\ pc' = "block"
  /\ UNCHANGED <<debug, rtl, results, pureVars, codegenVars>>

LiveNext ==
  \/ NewChunkOnce
  \/ BuildStep

\* A build is one thread of straight-line code, so while it is under way its
\* next step is taken.  Every step of a build changes pc or current, and only
\* steps of a build do so while pc is one of the three positions below, so
\* the steps of Advance in a behaviour are the steps of BuildStep; fairness is
\* stated on Advance because its enabling condition is the position alone.
Advance ==
  /\ pc \in {"block", "instr", "blockend"}
  /\ pc' \in {"idle", "block", "instr", "blockend", "fatal"}
  /\ current' \in 0 .. Len(BlockAt(blockIdx).instrs)

LiveSpec == Init /\ [][LiveNext]_vars /\ WF_<<pc, current>>(Advance)

----------------------------------------------------------------------------
(* The pure helpers applied to enumerated inputs.                          *)

buildVars == <<pc, debug, rtl, graph, b, blockIdx, current, session, results>>

PureInit ==
  /\ pc = "idle" /\ debug = FALSE /\ rtl = FALSE
  /\ graph = NoGraph /\ b = NoBuilder /\ blockIdx = 0 /\ current = 0
  /\ session = NoSession
  /\ results = NoResults
  /\ op \in Tokens
  /\ is_unsigned \in BOOLEAN
  /\ pred = NoCall
  /\ x \in Int32Samples
  /\ smi = NoWord
  /\ int32 = NoWord
  /\ counter = 0
  /\ codes = <<>>

CallTokenToPredicate ==
  /\ ~pred.called
  /\ pred' = [called |-> TRUE] @@ TokenToPredicate(op, is_unsigned)
  /\ UNCHANGED <<buildVars, codegenVars, op, is_unsigned, x, smi, int32>>

CallInteger32ToSmi ==
  /\ ~smi.called
  /\ smi' = [called |-> TRUE, w |-> Integer32ToSmiBits(SignExtend32(x))]
  /\ UNCHANGED <<buildVars, codegenVars, op, is_unsigned, pred, x, int32>>

CallSmiToInteger32 ==
  /\ smi.called
  /\ ~int32.called
  /\ int32' = [called |-> TRUE, w |-> SmiToInteger32Bits(smi.w)]
  /\ UNCHANGED <<buildVars, codegenVars, op, is_unsigned, pred, x, smi>>

PureNext ==
  \/ CallTokenToPredicate
  \/ CallInteger32ToSmi
  \/ CallSmiToInteger32

PureSpec == PureInit /\ [][PureNext]_vars

----------------------------------------------------------------------------
(* LLVMChunk::Codegen against the session.  A NewChunk call is taken as a  *)
(* whole here: it creates a module and, when the build succeeds, adds it   *)
(* to the session and returns the chunk carrying its identifier.           *)

\* LLVMGranularity::GetFunctionAddress(id): the execution engine generates
\* the code of the module named id, unless it did so before, into a buffer of
\* size sz that the memory manager allocates; the session as the call leaves it.
GetFunctionAddress(sess, id, sz) ==
  IF id \in DOMAIN sess.buffers THEN sess
  ELSE [sess EXCEPT !.buffers = (id :> sz) @@ @, !.last = id]

\* memory_manager_ref()->LastAllocatedCode(): the buffer allocated last.
LastAllocatedCode(sess) == [id |-> sess.last, size |-> sess.buffers[sess.last]]

\* Factory::NewLLVMCode(desc, flags): the Code object wrapping the buffer.
NewLLVMCode(desc) == [buffer |-> desc.id, instruction_size |-> desc.size]

\* StatsCounter::Increment(value).
Increment(c, value) == c + value

\* A Codegen that wraps the buffer found under the chunk's identifier.
CodegenCodeOfOwnBuffer(sess, id, sz) ==
  NewLLVMCode([id |-> id, size |-> GetFunctionAddress(sess, id, sz).buffers[id]])

\* The code object Codegen returns for the chunk of identifier id.
CodegenCode(sess, id, sz) ==
  NewLLVMCode(LastAllocatedCode(GetFunctionAddress(sess, id, sz)))

\* The counter incremented once per code object instead of by its size.
CodegenCounterCountsObjects(c, code) == Increment(c, 1)

\* total_compiled_code_size()->Increment(code->instruction_size()).
CodegenCounter(c, code) == Increment(c, code.instruction_size)

CodegenInit ==
  /\ pc = "idle" /\ debug = FALSE /\ rtl = FALSE
  /\ graph = NoGraph /\ b = NoBuilder /\ blockIdx = 0 /\ current = 0
  /\ session = NoSession
  /\ results = NoResults
  /\ op = "EQ" /\ is_unsigned = FALSE /\ pred = NoCall
  /\ x = 0 /\ smi = NoWord /\ int32 = NoWord
  /\ counter = 0
  /\ codes = <<>>

\* LLVMChunk::NewChunk(graph) as a whole: Build created a module and either
\* returned NULL or added the module and returned the chunk.
NewChunkReturns ==
  /\ Len(results) < MaxBuilds
  /\ \E done \in BOOLEAN :
       /\ session' = IF done
                     THEN AddModule(CreateModule(session), ModuleIdentifier(session))
                     ELSE CreateModule(session)
       /\ results' = Append(results,
                            [chunk |-> done,
                             llvm_function_id |->
                               IF done THEN ModuleIdentifier(session) ELSE 0 - 1,
                             module |-> ModuleIdentifier(session)])
  /\ UNCHANGED <<pc, debug, rtl, graph, b, blockIdx, current, pureVars, codegenVars>>

\* chunk->Codegen() on one of the chunks NewChunk returned.
Codegen ==
  /\ Len(codes) < MaxCodegens
  /\ \E i \in 1 .. Len(results), sz \in 1 .. MaxCodeSize :
       /\ results[i].chunk
       /\ session' = GetFunctionAddress(session, results[i].llvm_function_id, sz)
       /\ codes' = Append(codes,
                          [unit |-> results[i].llvm_function_id] @@
                            CodegenCode(session, results[i].llvm_function_id, sz))
       /\ counter' = CodegenCounter(
                        counter,
                        CodegenCode(session, results[i].llvm_function_id, sz))
  /\ UNCHANGED <<pc, debug, rtl, graph, b, blockIdx, current, results, pureVars>>

CodegenNext ==
  \/ NewChunkReturns
  \/ Codegen

CodegenSpec == CodegenInit /\ [][CodegenNext]_vars

----------------------------------------------------------------------------
(* The properties checked of the builder, C1 to C5.                        *)

\* C1: a value flagged emit-at-use is run through VisitInstruction exactly
\* once however many times, and from whatever blocks, Use resolves it; every
\* Use of it returns the one memoized handle.
C1_EmitAtUseVisitedOnce ==
  \A v \in ValueIds :
    EmitAtUses(v) =>
      /\ b.visits[v] <= 1
      /\ b.uses[v] >= 1 => (b.visits[v] = 1 /\ b.returned[v] = {b.llvm_value[v]})

\* The constant of the diamond, emitted at its uses, resolved by consumers of
\* three blocks by the time the join block is under way.
C1_Witness ==
  /\ pc = "instr"
  /\ b.current_block_ = 4
  /\ EmitAtUses(4)
  /\ b.uses[4] >= 3
  /\ b.visits[4] = 1

\* C2: the native block of an IR block is created exactly once; different IR
\* blocks have different native blocks; every branch a predecessor emitted
\* targets the native block that DoBasicBlock points the builder at, and the
\* block's instructions are found in that native block.
C2_BlockHandleOnce ==
  \A blk \in BlockIds :
    /\ b.created[blk] <= 1
    /\ (b.llvm_basic_block[blk] # 0) <=> (b.created[blk] = 1)
    /\ \A other \in BlockIds :
         (other # blk /\ b.llvm_basic_block[blk] # 0)
           => b.llvm_basic_block[other] # b.llvm_basic_block[blk]
    /\ (b.current_block_ = blk)
         => (b.llvm_basic_block[blk] # 0 /\ b.llvm_ir_builder_ = b.llvm_basic_block[blk])
    /\ (b.llvm_basic_block[blk] # 0) =>
         /\ \A i \in 1 .. Len(b.code[b.llvm_basic_block[blk]]) :
              LET e == b.code[b.llvm_basic_block[blk]][i]
              IN /\ (e.op = "br")
                      => (e.t1 # 0 /\ e.t1 = b.llvm_basic_block[End(blk).known])
                 /\ (e.op = "condbr")
                      => /\ e.t1 # 0 /\ e.t1 = b.llvm_basic_block[End(blk).succ1]
                         /\ e.t2 # 0 /\ e.t2 = b.llvm_basic_block[End(blk).succ2]
         /\ \A k \in 1 .. Len(BlockAt(blk).instrs) :
              LET h == b.llvm_value[BlockAt(blk).instrs[k]]
              IN (h.k = "inst") =>
                   \E i \in 1 .. Len(b.code[b.llvm_basic_block[blk]]) :
                     b.code[b.llvm_basic_block[blk]][i].h = h

\* The join block under way, created once, with an instruction of its own in
\* the native block that both predecessors branched to before it was visited.
C2_Witness ==
  /\ pc = "instr"
  /\ b.current_block_ = 4
  /\ b.created[4] = 1
  /\ Len(b.code[b.llvm_basic_block[4]]) > 0
  /\ \A blk \in {2, 3} :
       \E i \in 1 .. Len(b.code[b.llvm_basic_block[blk]]) :
         /\ b.code[b.llvm_basic_block[blk]][i].op = "br"
         /\ b.code[b.llvm_basic_block[blk]][i].t1 = b.llvm_basic_block[4]

\* C3 as stated: a block with one predecessor shares the predecessor's last
\* environment unless the predecessor has two successors and both successors'
\* numbers exceed the block's number.
C3_CopyOnlyWhenBothExceed ==
  \A blk \in BlockIds :
    (/\ ~BlockAt(blk).is_start
     /\ Len(BlockAt(blk).predecessors) = 1
     /\ b.last_environment[blk] # 0) =>
      (b.last_environment[blk] = b.last_environment[BlockAt(blk).predecessors[1]])
        <=> ~(/\ SecondSuccessor(BlockAt(blk).predecessors[1]) # NoBlock
              /\ FirstSuccessor(BlockAt(blk).predecessors[1]) > blk
              /\ SecondSuccessor(BlockAt(blk).predecessors[1]) > blk)

\* C3, amended: a non-start block with one predecessor, once DoBasicBlock has
\* bound its environment, shares the storage of the predecessor's last
\* environment if and only if it is not the case that the predecessor has two
\* successors and at least one successor's number exceeds the block's number;
\* in that remaining case it has a distinct copy, equal in content when bound.
C3_CopyWhenEitherExceeds ==
  \A blk \in BlockIds :
    (/\ ~BlockAt(blk).is_start
     /\ Len(BlockAt(blk).predecessors) = 1
     /\ b.last_environment[blk] # 0) =>
      /\ (b.last_environment[blk] = b.last_environment[BlockAt(blk).predecessors[1]])
           <=> ~(/\ SecondSuccessor(BlockAt(blk).predecessors[1]) # NoBlock
                 /\ \/ FirstSuccessor(BlockAt(blk).predecessors[1]) > blk
                    \/ SecondSuccessor(BlockAt(blk).predecessors[1]) > blk)
      /\ (pc = "instr" /\ current = 1 /\ b.current_block_ = blk)
           => b.envs[b.last_environment[blk]] =
                b.envs[b.last_environment[BlockAt(blk).predecessors[1]]]

\* Both arms of the branch bound: B2 on a copy, B3 on the storage of B1, and
\* the simulates of the two arms have written to different environments.
C3_Witness ==
  /\ Len(graph.blocks) = 5
  /\ b.last_environment[2] # 0
  /\ b.last_environment[3] # 0
  /\ b.last_environment[2] # b.last_environment[1]
  /\ b.last_environment[3] = b.last_environment[1]
  /\ b.envs[b.last_environment[2]][2] = 12
  /\ b.envs[b.last_environment[3]][2] # 12
  /\ b.envs[b.last_environment[3]][3] = 16

\* C4 as stated: when a join block has just been bound, every slot that a phi
\* of the block bears holds that phi, whatever the phi and deleted-phi lists.
C4_EveryPhiSlotHoldsPhi ==
  \A blk \in BlockIds :
    (/\ Len(BlockAt(blk).predecessors) > 1
     /\ pc = "instr" /\ current = 1 /\ b.current_block_ = blk) =>
      \A k \in 1 .. Len(BlockAt(blk).phis) :
        (ValueAt(BlockAt(blk).phis[k]).merged_index >= 0) =>
          b.envs[b.last_environment[blk]]
                [ValueAt(BlockAt(blk).phis[k]).merged_index + 1] = BlockAt(blk).phis[k]

\* C4, amended: when a join block has just been bound, every slot that a phi
\* of the block bears and that the deleted-phi list does not name holds that
\* phi, and not a predecessor's raw value, for every combination of the lists.
C4_PhiSlotHoldsPhiUnlessDeleted ==
  \A blk \in BlockIds :
    (/\ Len(BlockAt(blk).predecessors) > 1
     /\ pc = "instr" /\ current = 1 /\ b.current_block_ = blk) =>
      \A k \in 1 .. Len(BlockAt(blk).phis) :
        (/\ ValueAt(BlockAt(blk).phis[k]).merged_index >= 0
         /\ \A j \in 1 .. Len(BlockAt(blk).deleted_phis) :
              BlockAt(blk).deleted_phis[j] # ValueAt(BlockAt(blk).phis[k]).merged_index) =>
          /\ b.envs[b.last_environment[blk]]
                   [ValueAt(BlockAt(blk).phis[k]).merged_index + 1] = BlockAt(blk).phis[k]
          /\ BlockAt(blk).phis[k] \notin
               { b.envs[e][n] : e \in 1 .. Len(b.envs) \ {b.last_environment[blk]},
                                n \in 1 .. Len(graph.start_environment) }

\* The join block just bound with two phis and a deleted-phi list that names
\* the slot of one of them: the other slot holds its phi.
C4_Witness ==
  /\ pc = "instr" /\ current = 1 /\ b.current_block_ = 4
  /\ Len(BlockAt(4).phis) = 2
  /\ BlockAt(4).deleted_phis = <<2, 5>>
  /\ b.envs[b.last_environment[4]][1] = BlockAt(4).phis[1]
  /\ b.envs[b.last_environment[4]][3] = graph.undefined

\* C5: the step of DoBasicBlock that binds a join block changes the first
\* predecessor's last environment only in phi slots and deleted-phi slots:
\* a slot with no phi and not listed as deleted keeps its value, a deleted-phi
\* index below the length holds the undefined constant, an index at or beyond
\* the length causes no write, and no other environment changes.
C5_JoinFrame ==
  [][(pc = "block" /\ pc' = "instr" /\ Len(BlockAt(blockIdx).predecessors) > 1) =>
       LET old == b.envs[b.last_environment[BlockAt(blockIdx).predecessors[1]]]
           new == b'.envs[b'.last_environment[blockIdx]]
           phis == BlockAt(blockIdx).phis
           deleted == BlockAt(blockIdx).deleted_phis
           HasPhi(slot) == \E k \in 1 .. Len(phis) : ValueAt(phis[k]).merged_index = slot
           IsDeleted(slot) == \E j \in 1 .. Len(deleted) : deleted[j] = slot
       IN /\ DOMAIN new = DOMAIN old
          /\ \A slot \in 0 .. (Len(old) - 1) :
               /\ (~HasPhi(slot) /\ ~IsDeleted(slot)) => new[slot + 1] = old[slot + 1]
               /\ IsDeleted(slot) => new[slot + 1] = graph.undefined
          /\ Len(b'.envs) = Len(b.envs)
          /\ \A e \in 1 .. Len(b.envs) :
               (e # b.last_environment[BlockAt(blockIdx).predecessors[1]])
                 => b'.envs[e] = b.envs[e]
     ]_vars

\* The join block just bound with a phi on slot 1 and the deleted-phi list
\* <<2, 5>>: slot 0 keeps the parameter, slot 2 holds undefined, index 5 wrote
\* nothing.
C5_Witness ==
  /\ pc = "instr" /\ current = 1 /\ b.current_block_ = 4
  /\ BlockAt(4).deleted_phis = <<2, 5>>
  /\ Len(BlockAt(4).phis) = 1
  /\ Len(b.envs[b.last_environment[4]]) = 3
  /\ b.envs[b.last_environment[4]][1] = 2
  /\ b.envs[b.last_environment[4]][2] = BlockAt(4).phis[1]
  /\ b.envs[b.last_environment[4]][3] = graph.undefined

----------------------------------------------------------------------------
(* The properties checked of the pure helpers, C6 and C7 (PureSpec).       *)

\* C6 as stated: the six relational tokens in both signednesses yield twelve
\* pairwise distinct non-error predicates; IN and INSTANCEOF are fatal.
C6_TwelveDistinctPredicates ==
  /\ (pred.called /\ op \in RelationalTokens) =>
       /\ pred.fatal = ""
       /\ pred.pred # "BAD_FCMP_PREDICATE"
       /\ \A t \in RelationalTokens, u \in BOOLEAN :
            (TokenToPredicate(t, u).pred = pred.pred) => (t = op /\ u = is_unsigned)
  /\ (pred.called /\ op \in {"IN", "INSTANCEOF"}) => pred.fatal = "unreachable code"

\* C6, amended: TokenToPredicate is total over the 12 combinations of
\* {EQ, NE, LT, GT, LTE, GTE} x {signed, unsigned}: each combination yields a
\* non-error predicate, and the predicates are pairwise distinct except that EQ
\* and NE each yield one predicate for both signednesses (10 predicates); for
\* IN and INSTANCEOF (any signedness) it reaches the fatal unreachable state
\* and returns no predicate.
C6_TenDistinctPredicates ==
  /\ pred.called => pred = [called |-> TRUE] @@ TokenToPredicate(op, is_unsigned)
  /\ (pred.called /\ op \in RelationalTokens) =>
       /\ pred.fatal = ""
       /\ pred.pred # "BAD_FCMP_PREDICATE"
       /\ \A t \in RelationalTokens, u \in BOOLEAN :
            (TokenToPredicate(t, u).pred = pred.pred)
              <=> (t = op /\ (u = is_unsigned \/ op \in {"EQ", "NE"}))
       /\ Cardinality({ TokenToPredicate(t, u).pred :
                          t \in RelationalTokens, u \in BOOLEAN }) = 10
  /\ (pred.called /\ op \in {"IN", "INSTANCEOF"}) => pred.fatal = "unreachable code"

\* The call for unsigned EQ returned the predicate that signed EQ yields.
C6_Witness ==
  /\ pred.called
  /\ op = "EQ"
  /\ is_unsigned
  /\ pred.fatal = ""
  /\ pred.pred = TokenToPredicate("EQ", FALSE).pred

\* C7: under the 32-bit Smi configuration, SmiToInteger32 applied to the
\* result of Integer32ToSmi(x) yields the sign-extended 64-bit word x again,
\* for every 32-bit signed integer x, negative ones included.
C7_RoundTrip == int32.called => int32.w = SignExtend32(x)

----------------------------------------------------------------------------
(* The properties checked of Build, C8 to C10.                             *)

C9_OnlyDoneBuildsRegistered ==
  /\ session.modules =
       { results[i].module : i \in { j \in 1 .. Len(results) : results[j].chunk } }
  /\ \A i \in 1 .. Len(results) :
       results[i].llvm_function_id =
         IF results[i].chunk THEN results[i].module ELSE 0 - 1
  /\ (b.status # "DONE") => b.module_ \notin session.modules
  /\ \A i \in 1 .. Len(results), j \in 1 .. Len(results) :
       (i # j) => results[i].module # results[j].module

\* A failed build followed by a successful one: the session holds the second
\* unit only.
C9_Witness ==
  /\ Len(results) = 2
  /\ ~results[1].chunk
  /\ results[2].chunk
  /\ session.modules = {results[2].module}
  /\ b.status = "DONE"

\* C10: the status is BUILDING when Build starts, changes at most once, to
\* DONE or to ABORTED, and never again; DoBasicBlock starts only while the
\* status is BUILDING; once the status is ABORTED no instruction is visited
\* and no later block is started.
C10_StatusMonotonic ==
  [][/\ (pc = "idle" /\ pc' # "idle") => b'.status = "BUILDING"
     /\ (pc # "idle") =>
          \/ b'.status = b.status
          \/ b.status = "BUILDING" /\ b'.status \in {"DONE", "ABORTED"}
     /\ (pc = "block" /\ pc' # "block") => b.status = "BUILDING"
     /\ (pc # "idle" /\ b.status = "ABORTED") =>
          /\ b'.visits = b.visits
          /\ b'.created = b.created
          /\ blockIdx' = blockIdx
          /\ pc' \in {pc, "blockend", "idle"}
    ]_vars

\* The build gave up at the second instruction of B2: the rest of B2 and the
\* blocks after it were never visited, and NewChunk returned null.
C10_Witness ==
  /\ pc = "idle"
  /\ Len(results) >= 1
  /\ ~results[Len(results)].chunk
  /\ b.status = "ABORTED"
  /\ b.visits[12] = 1
  /\ b.visits[13] = 0
  /\ b.visits[19] = 0
  /\ b.last_environment[4] = 0

----------------------------------------------------------------------------
(* The properties checked of the builder, C11 to C20.                      *)

\* C11: the argument count recorded on a block that DoBasicBlock has finished
\* is non-negative: 0 for a start block, the recorded count of the first (or
\* only) predecessor otherwise; while the block's instructions are visited
\* argument_count_ keeps the value the block started with.
C11_ArgumentCount ==
  \A blk \in BlockIds :
    /\ (b.last_environment[blk] # 0 /\ b.current_block_ # blk) =>
         /\ b.argument_count[blk] >= 0
         /\ BlockAt(blk).is_start => b.argument_count[blk] = 0
         /\ ~BlockAt(blk).is_start =>
              b.argument_count[blk] = b.argument_count[BlockAt(blk).predecessors[1]]
    /\ (b.last_environment[blk] # 0 /\ b.current_block_ = blk) =>
         b.argument_count_ =
           IF BlockAt(blk).is_start THEN 0
           ELSE b.argument_count[BlockAt(blk).predecessors[1]]

\* A build that finished all five blocks: the start block, the blocks with one
\* predecessor and the join block all recorded 0.
C11_Witness ==
  /\ pc = "idle"
  /\ b.status = "DONE"
  /\ \A blk \in BlockIds : b.argument_count[blk] = 0
  /\ Len(graph.blocks) = 5
  /\ b.visits[22] = 1

\* C12: with n declared parameters the native function has n+3 arguments, and
\* DoParameter for index i in 0..n binds the argument at position n+2-i: index
\* 0 binds the last argument, no index binds hidden argument 0 or 1, and
\* different indexes bind different arguments.
C12_ParameterBinding ==
  /\ (b.status # "UNUSED") => b.num_args = graph.num_parameters + 3
  /\ (b.status # "UNUSED" /\ b.visits[2] >= 1) =>
       /\ ValueAt(2).kind = "Parameter"
       /\ b.llvm_value[2].k = "arg"
       /\ b.llvm_value[2].n = (graph.num_parameters + 2) - ValueAt(2).index
       /\ b.llvm_value[2].n \in 2 .. (b.num_args - 1)
       /\ (ValueAt(2).index = 0) => b.llvm_value[2].n = b.num_args - 1
       /\ \A j \in 0 .. graph.num_parameters :
            (j # ValueAt(2).index)
              => ArgWalk(0 - j, graph.num_parameters + 3, 0) # b.llvm_value[2].n

\* Three declared parameters and the HParameter of index 3 bound: it is the
\* argument right behind the two hidden ones.
C12_Witness ==
  /\ pc = "instr"
  /\ graph.num_parameters = 3
  /\ ValueAt(2).index = 3
  /\ b.num_args = 6
  /\ b.llvm_value[2] = ArgHandle(2)

\* C13: every Codegen call adds exactly the instruction size of the code
\* object it returns to the total-compiled-code-size counter, no other step
\* changes the counter, and the counter never decreases.
C13_CounterGrowsBySize ==
  [][/\ counter' >= counter
     /\ (Len(codes') = Len(codes) + 1)
          => counter' = counter + codes'[Len(codes')].instruction_size
     /\ (Len(codes') = Len(codes)) => counter' = counter
    ]_vars

\* Two Codegen calls returned objects of sizes 2 and 1: the counter reads 3.
C13_Witness ==
  /\ Len(codes) = 2
  /\ codes[1].instruction_size = 2
  /\ codes[2].instruction_size = 1
  /\ counter = 3


\* C15: DoAdd, DoSub and DoMul resolve both operands through the
\* materialization cache: once the handler of an addition, subtraction or
\* multiplication has run, it has not failed on a missing operand value, and
\* if the build goes on both operands hold a native value.
C15_OperandsResolvedThroughCache ==
  \A v \in ValueIds :
    (ValueAt(v).kind \in {"Add", "Sub", "Mul"} /\ b.visits[v] >= 1) =>
      /\ ~(b.current_instruction_ = v /\ b.fatal = "Check failed")
      /\ Ok(b) => /\ ~IsNull(b.llvm_value[ValueAt(v).left])
                  /\ ~IsNull(b.llvm_value[ValueAt(v).right])


C17_KnownSuccessorBranch ==
  [][ \A v \in ValueIds :
        ( /\ pc = "instr"
          /\ graph' = graph
          /\ b'.visits[v] = b.visits[v] + 1
          /\ ~EmitAtUses(v)
          /\ ~ValueAt(v).dummy ) =>
          IF HasKnownSuccessor(v)
          THEN /\ Ok(b')
               /\ b'.insts = b.insts + 1
               /\ b'.llvm_ir_builder_ = b.llvm_ir_builder_
               /\ b'.llvm_basic_block[ValueAt(v).known] # 0
               /\ b'.code[b.llvm_ir_builder_] =
                    Append(b.code[b.llvm_ir_builder_],
                           Emitted("br", InstHandle(b.insts + 1), NullHandle,
                                   NullHandle,
                                   b'.llvm_basic_block[ValueAt(v).known], 0))
               /\ \A nb \in DOMAIN b.code :
                    (nb # b.llvm_ir_builder_) => b'.code[nb] = b.code[nb]
               /\ \A nb \in DOMAIN b'.code : (nb \notin DOMAIN b.code) => b'.code[nb] = <<>>
               /\ b'.llvm_value = b.llvm_value
          ELSE /\ (ValueAt(v).kind \in StubKinds) =>
                    (b'.fatal = "unimplemented code" /\ b'.code = b.code)
               /\ \A nb \in DOMAIN b'.code :
                    \A i \in DOMAIN b'.code[nb] :
                      (nb \notin DOMAIN b.code \/ i > Len(b.code[nb]))
                        => b'.code[nb][i].op # "br"
    ]_vars

\* The Goto that ends B2 has been visited: the build goes on, and the native
\* block of B2 ends with the one branch to the native block of the join,
\* while the comparison that ends B1, which has no known successor, left the
\* conditional branch of its handler.
C17_Witness ==
  /\ pc = "instr"
  /\ b.current_block_ = 2
  /\ ValueAt(14).kind = "Goto"
  /\ b.visits[14] = 1
  /\ Ok(b)
  /\ b.code[b.llvm_basic_block[2]][Len(b.code[b.llvm_basic_block[2]])].op = "br"
  /\ b.code[b.llvm_basic_block[2]][Len(b.code[b.llvm_basic_block[2]])].t1
       = b.llvm_basic_block[4]
  /\ b.code[b.llvm_basic_block[1]][Len(b.code[b.llvm_basic_block[1]])].op = "condbr"


\* C18: when a block has two distinct successors that each have it as their
\* only predecessor, then from the moment the block is finished until the
\* later-numbered successor is bound no step of the build changes the block's last
\* environment, whatever the earlier successor replays into its own, and the
\* environment the later successor is bound to holds exactly the values the
\* block's last environment had when the block finished.
C18_LaterSiblingUnaffected ==
  [][ \A pred_block \in BlockIds :
        \A later \in BlockIds :
          ( /\ pc # "idle"
            /\ SecondSuccessor(pred_block) # NoBlock
            /\ FirstSuccessor(pred_block) # SecondSuccessor(pred_block)
            /\ later \in {FirstSuccessor(pred_block), SecondSuccessor(pred_block)}
            /\ later > FirstSuccessor(pred_block) \/ later > SecondSuccessor(pred_block)
            /\ BlockAt(FirstSuccessor(pred_block)).predecessors = <<pred_block>>
            /\ BlockAt(SecondSuccessor(pred_block)).predecessors = <<pred_block>>
            /\ b.argument_count[pred_block] >= 0
            /\ b.last_environment[later] = 0 ) =>
            /\ b'.last_environment[pred_block] = b.last_environment[pred_block]
            /\ b'.envs[b.last_environment[pred_block]]
                 = b.envs[b.last_environment[pred_block]]
            /\ (b'.last_environment[later] # 0) =>
                 b'.envs[b'.last_environment[later]]
                   = b.envs[b.last_environment[pred_block]]
    ]_vars

\* B3, listed first among the successors of B1, has just been bound after B2
\* was processed: the simulate of B2 wrote its difference into slot 1 of the
\* environment of B2, and slot 1 of the environment B3 starts from still
\* holds the undefined constant of the start environment.
C18_Witness ==
  /\ pc = "instr"
  /\ b.current_block_ = 3
  /\ current = 1
  /\ FirstSuccessor(1) = 3
  /\ ValueAt(12).kind = "Sub"
  /\ b.envs[b.last_environment[2]][2] = 12
  /\ b.envs[b.last_environment[3]][2] = graph.undefined
  /\ b.envs[b.last_environment[3]] = b.envs[b.last_environment[1]]


\* C19: while a build runs, an instruction of a block's list that is not
\* flagged emit-at-use has been visited at most once, and only if every such
\* instruction before it (in an earlier block of the graph's list, or earlier
\* in the same list) has been visited; when the build is DONE each has been
\* visited exactly once.  An instruction flagged emit-at-use has been visited
\* only if a visited instruction that resolves its operands through Use has
\* it as an operand, so one without a visited consumer has not been visited.
\* When the build is DONE every block has its native block.
C19_MainIteration ==
  /\ \A blk \in BlockIds :
       \A i \in 1 .. Len(BlockAt(blk).instrs) :
         LET v == BlockAt(blk).instrs[i]
         IN IF ~EmitAtUses(v)
            THEN /\ b.visits[v] <= 1
                 /\ (b.status = "DONE") => b.visits[v] = 1
                 /\ (b.visits[v] = 1) =>
                      \A blk2 \in BlockIds :
                        \A i2 \in 1 .. Len(BlockAt(blk2).instrs) :
                          ( /\ blk2 < blk \/ (blk2 = blk /\ i2 < i)
                            /\ ~EmitAtUses(BlockAt(blk2).instrs[i2]) )
                            => b.visits[BlockAt(blk2).instrs[i2]] = 1
            ELSE (b.visits[v] >= 1) =>
                   \E c \in ValueIds :
                     /\ b.visits[c] >= 1
                     /\ ValueAt(c).kind \in {"Add", "Sub", "Mul", "Change", "Return",
                                             "CompareNumericAndBranch"}
                     /\ v \in {ValueAt(c).left, ValueAt(c).right}
  /\ (b.status = "DONE") => \A blk \in BlockIds : b.llvm_basic_block[blk] # 0

\* A finished build: the constant the comparison and the additions read was
\* visited through them, the undefined constant and the second constant,
\* which nothing visited reads, were not, and all five blocks have their
\* native blocks.
C19_Witness ==
  /\ pc = "idle"
  /\ b.status = "DONE"
  /\ EmitAtUses(4) /\ b.visits[4] = 1
  /\ EmitAtUses(5) /\ b.visits[5] = 0
  /\ EmitAtUses(23) /\ b.visits[23] = 0
  /\ b.visits[22] = 1
  /\ \A blk \in 0 .. 4 : b.created[blk] = 1


\* The longest chain of emit-at-use values that starts at v and goes on
\* through operands: 0 when v is not emitted at its uses.
RECURSIVE EmitChain(_)
EmitChain(v) ==
  IF v = NoValue \/ ~EmitAtUses(v) THEN 0
  ELSE 1 + (IF EmitChain(ValueAt(v).left) > EmitChain(ValueAt(v).right)
            THEN EmitChain(ValueAt(v).left) ELSE EmitChain(ValueAt(v).right))

\* C20: every build that NewChunk starts ends: it returns a unit, returns
\* null, or stops in a fatal state.  On the way no value is visited a second
\* time, and the VisitInstruction calls nested below the one of the block
\* loop are never more than the longest chain of emit-at-use operands.
C20_BuildTerminates ==
  /\ [](/\ \A v \in ValueIds : b.visits[v] <= 1
        /\ b.depth <= b.max_depth
        /\ (b.max_depth > 0) =>
             \E w \in ValueIds : b.max_depth <= 1 + EmitChain(w))
  /\ (pc = "block" /\ Len(results) = 0)
       ~> \/ pc = "fatal"
          \/ /\ pc = "idle"
             /\ Len(results) = 1
             /\ results[1].chunk = (b.status = "DONE")

\* A finished build in which the return started the materialization of the
\* change, which started that of the sum: three calls deep, with a chain of
\* two values emitted at their uses.
C20_Witness ==
  /\ pc = "idle"
  /\ b.status = "DONE"
  /\ Len(results) = 1
  /\ results[1].chunk
  /\ EmitChain(21) = 2
  /\ b.visits[20] = 1
  /\ b.max_depth = 3
  /\ b.depth = 0


----------------------------------------------------------------------------
(* The properties checked of the builder and of Codegen, C21 to C25.       *)

C22_SmiArithmetic ==
  \A v \in ValueIds :
    ( /\ ValueAt(v).kind \in {"Add", "Sub", "Mul"}
      /\ ValueAt(v).rep = "Smi"
      /\ ValueAt(ValueAt(v).left).kind = "Constant"
      /\ ValueAt(ValueAt(v).right).kind = "Constant"
      /\ b.llvm_value[ValueAt(v).left]
           = ConstHandle(Shl(SignExtend32(ValueAt(ValueAt(v).left).value), kSmiShift))
      /\ b.llvm_value[ValueAt(v).right]
           = ConstHandle(Shl(SignExtend32(ValueAt(ValueAt(v).right).value), kSmiShift))
      /\ b.visits[v] >= 1
      /\ ~(b.current_instruction_ = v /\ ~Ok(b)) ) =>
      LET a == ValueAt(ValueAt(v).left).value
          c == ValueAt(ValueAt(v).right).value
          r == CASE ValueAt(v).kind = "Add" -> a + c
                 [] ValueAt(v).kind = "Sub" -> a - c
                 [] ValueAt(v).kind = "Mul" -> a * c
      IN (r >= (0 - 2147483647) - 1 /\ r <= 2147483647) =>
           b.llvm_value[v] = ConstHandle(Shl(SignExtend32(r), kSmiShift))


\* C23: once the handler of a value-producing instruction that has uses has
\* returned normally, the instruction has a memoized materialized value; so it
\* is for the context of a non-stub function and for a change from any source
\* representation.
C23_HandlerLeavesValue ==
  (pc # "idle" /\ Ok(b)) =>
    \A v \in ValueIds :
      ( /\ ValueAt(v).kind \in {"Parameter", "Context", "Constant", "Add", "Sub",
                                 "Mul", "Change"}
        /\ ValueAt(v).has_uses
        /\ b.visits[v] >= 1 ) => ~IsNull(b.llvm_value[v])


\* C24: every Use of a value finds the value materialized: no Use returns a
\* null handle and none stops at its debug check.  The operands of the graphs
\* are all defined before their readers in block order; one of them may be
\* a phi of the join block B4 read by the sum, the change or the return of B4.
C24_UseFindsValue ==
  pc # "idle" =>
    /\ \A w \in ValueIds : NullHandle \notin b.returned[w]
    /\ b.fatal # "Debug check failed: value->llvm_value()"


\* C25: VisitInstruction and DoBasicBlock leave the cursor of the builder as
\* they found it.  An iteration of the loop that returns leaves
\* current_instruction_ as it was; when the process ends in the handler of the
\* instruction the loop visited, after any visit nested in it has returned,
\* current_instruction_ is that instruction; once DoBasicBlock has returned,
\* current_block_ and next_block_ are null; and inside it they are the block
\* and the block after it in the order of the graph, null after the last.
C25_CursorRestored ==
  [][ (pc # "idle" /\ pc' # "idle") =>
        /\ (pc = "instr" /\ pc' = "instr") =>
             b'.current_instruction_ = b.current_instruction_
        /\ (pc = "instr" /\ pc' = "fatal" /\ b'.depth = 1) =>
             b'.current_instruction_ = BlockAt(b.current_block_).instrs[current]
        /\ (pc' = "blockend") =>
             b'.current_block_ = NoBlock /\ b'.next_block_ = NoBlock
        /\ (pc' = "instr") =>
             /\ b'.current_block_ = blockIdx'
             /\ b'.next_block_ = IF blockIdx' < Len(graph.blocks) - 1
                                 THEN blockIdx' + 1 ELSE NoBlock
    ]_vars

\* The return of B4 started the visit of the emit-at-use change, which
\* returned without a value: the debug check of Use ends the process with
\* current_instruction_ back at the return, in the last block.
C25_Witness ==
  /\ pc = "fatal"
  /\ b.depth = 1
  /\ b.current_instruction_ = 22
  /\ EmitAtUses(21)
  /\ b.visits[21] = 1
  /\ b.max_depth = 2
  /\ b.current_block_ = 4
  /\ b.next_block_ = NoBlock

====
